---- MODULE Spec2Model ----
(***************************************************************************)
(* A model of the slonogram dispatch core:                                 *)
(*   - slonogram/filtering/extended.py : the filter combinators            *)
(*   - slonogram/handling/_inspect.py  : the handler adapter               *)
(*   - slonogram/dispatcher/__init__.py: the polling loop                  *)
(* Each part has its own specification (FilterSpec, AdapterSpec,           *)
(* PollingSpec); the variables of the other parts stay at their initial    *)
(* values.                                                                 *)
(***************************************************************************)
EXTENDS Naturals, Sequences, FiniteSets

VARIABLES
    \* ---- filtering/extended.py
    filter,     \* the filter object under evaluation (a tree of combinators)
    stack,      \* the chain of suspended coroutine frames, innermost last
    signal,     \* what the innermost finished callee delivers to its awaiter
    trace,      \* every invocation made so far, in order: [path, ctx]
    returned,   \* per node of the tree: how its (only) invocation ended
    \* ---- handling/_inspect.py
    original,     \* the callback: what kind of callable it is and the
                  \* annotations of its parameters (annotate_with_handler_fn
                  \* rewrites the first)
    items,        \* list(params.items()) as into_handler_fn saw it
    registration, \* "none" before into_handler_fn, then "ok" or the error raised
    handler,      \* the HandlerFn into_handler_fn returned
    annotated,    \* how the last annotate_with_handler_fn call ended
    inspections,  \* who took signature() of the callback, in order
    invocations,  \* the contexts the handler was invoked with, in order
    received,     \* the argument lists the original callback received, in order
    \* ---- dispatcher/__init__.py
    pc,         \* where run_polling stands
    offset,     \* Optional[int]: <<>> is None, <<n>> is n
    updates,    \* the local `updates`: <<>> while unbound, <<batch>> once assigned
    index,      \* the for loop's position in the batch
    failure,    \* the exception run_polling ended with, "-" while it runs
    requests,   \* the offset passed to each get_updates call, in order
    batches,    \* the batch each answered get_updates call returned, in order
    printed     \* the updates processed so far, in order

filterVars == <<filter, stack, signal, trace, returned>>

adapterVars ==
    <<original, items, registration, handler, annotated, inspections, invocations, received>>

pollingVars == <<pc, offset, updates, index, failure, requests, batches, printed>>

vars == <<filterVars, adapterVars, pollingVars>>

(***************************************************************************)
(* Bounds.                                                                 *)
(***************************************************************************)
MaxNodes == 5
NumContexts == 2
MaxParams == 3
MaxInvocations == 2
MaxAnnotations == 1
MaxUpdateId == 1
MaxBatch == 2
MaxPolls == 2

Contexts == 1..NumContexts

\* The errors a user predicate may raise.
Errors == {"KeyError", "RuntimeError"}

(***************************************************************************)
(* Filter objects.  Leaves are user predicates (FilterFn): a stub whose    *)
(* outcome the environment chooses, or always_true.                        *)
(***************************************************************************)
Stub == [k |-> "Stub"]

always_true == [k |-> "always_true"]

Inverted(fn) == [k |-> "Inverted", fn |-> fn]

Or(lhs, rhs, exclusive) ==
    [k |-> "Or", lhs_fn |-> lhs, rhs_fn |-> rhs, exclusive |-> exclusive]

And(lhs, rhs) == [k |-> "And", lhs_fn |-> lhs, rhs_fn |-> rhs]

__invert__(self) == Inverted(self)

__or__(self, rhs) == Or(self, rhs, FALSE)

__xor__(self, rhs) == Or(self, rhs, TRUE)

__and__(self, rhs) == And(self, rhs)

not_(fn) == Inverted(fn)

RECURSIVE FiltersOfSize(_)
FiltersOfSize(n) ==
    IF n = 0 THEN {}
    ELSE IF n = 1 THEN {Stub, always_true}
    ELSE {__invert__(f) : f \in FiltersOfSize(n - 1)}
         \cup UNION { {__and__(o[1], o[2]), __or__(o[1], o[2]), __xor__(o[1], o[2])} :
                        o \in UNION { FiltersOfSize(i) \X FiltersOfSize(n - 1 - i) :
                                        i \in 1..(n - 2) } }

Filters == UNION { FiltersOfSize(n) : n \in 1..MaxNodes }

\* The operand attributes of a node, in the order the node's __call__ uses them.
Operands(f) ==
    IF f.k = "Inverted" THEN <<"fn">>
    ELSE IF f.k \in {"And", "Or"} THEN <<"lhs_fn", "rhs_fn">>
    ELSE <<>>

\* A node is named by the attribute path leading to it from the root.
RECURSIVE Sub(_, _)
Sub(f, path) == IF path = <<>> THEN f ELSE Sub(f[Head(path)], Tail(path))

RECURSIVE Paths(_)
Paths(f) ==
    {<<>>} \cup UNION { { <<Operands(f)[i]>> \o q : q \in Paths(f[Operands(f)[i]]) } :
                          i \in 1..Len(Operands(f)) }

(***************************************************************************)
(* Outcomes of an awaited call: a returned boolean or a raised error.      *)
(***************************************************************************)
Idle == [kind |-> "idle", val |-> FALSE, err |-> "-"]

Returns(v) == [kind |-> "return", val |-> v, err |-> "-"]

Raises(e) == [kind |-> "raise", val |-> FALSE, err |-> e]

StubOutcomes == {Returns(v) : v \in BOOLEAN} \cup {Raises(e) : e \in Errors}

(***************************************************************************)
(* Coroutine frames.                                                       *)
(***************************************************************************)
Frame(path, ctx) == [path |-> path, pc |-> "start", ctx |-> ctx, lhs |-> FALSE]

Top == stack[Len(stack)]

Node == Sub(filter, Top.path)

Running(kind, label) == Len(stack) > 0 /\ Node.k = kind /\ Top.pc = label

\* `await self.<attr>(ctx)`: the frame suspends at `label` and the operand starts.
Await(attr, label, lhs) ==
    /\ stack' = Append([stack EXCEPT ![Len(stack)].pc = label, ![Len(stack)].lhs = lhs],
                       Frame(Top.path \o <<attr>>, Top.ctx))
    /\ trace' = Append(trace, [path |-> Top.path \o <<attr>>, ctx |-> Top.ctx])
    /\ signal' = Idle
    /\ UNCHANGED <<filter, returned, adapterVars, pollingVars>>

\* The innermost frame ends with `out`, which its awaiter receives.
Finish(out) ==
    /\ stack' = SubSeq(stack, 1, Len(stack) - 1)
    /\ returned' = [returned EXCEPT ![Top.path] = out]
    /\ signal' = out
    /\ UNCHANGED <<filter, trace, adapterVars, pollingVars>>

\* The caller evaluates the filter against one context: `await filter(ctx)`.
Evaluate ==
    /\ trace = <<>>
    /\ \E ctx \in Contexts :
          /\ stack' = <<Frame(<<>>, ctx)>>
          /\ trace' = <<[path |-> <<>>, ctx |-> ctx]>>
    /\ UNCHANGED <<filter, signal, returned, adapterVars, pollingVars>>

\* A user predicate runs: the environment chooses its outcome.
StubCall ==
    /\ Running("Stub", "start")
    /\ \E out \in StubOutcomes : Finish(out)

AlwaysTrueCall ==
    /\ Running("always_true", "start")
    /\ Finish(Returns(TRUE))

\* ---- And.__call__
\* And without the short circuit.
AndAfterLhsEager(lhs) == [do |-> "await_rhs", val |-> FALSE]

AndAfterLhs(lhs) ==
    IF ~lhs THEN [do |-> "return", val |-> FALSE]
    ELSE [do |-> "await_rhs", val |-> FALSE]

AndCallLhs ==
    /\ Running("And", "start")
    /\ Await("lhs_fn", "await_lhs", FALSE)

AndLhsDone ==
    /\ Running("And", "await_lhs")
    /\ signal.kind = "return"
    /\ LET d == AndAfterLhs(signal.val)
       IN  IF d.do = "return" THEN Finish(Returns(d.val))
           ELSE Await("rhs_fn", "await_rhs", signal.val)

AndRhsDone ==
    /\ Running("And", "await_rhs")
    /\ signal.kind = "return"
    /\ Finish(Returns(signal.val))

\* ---- Or.__call__
\* Or without the short circuit.
OrAfterLhsEager(exclusive, lhs) == [do |-> "await_rhs", val |-> FALSE]

\* Or that short-circuits whether exclusive or not.
OrAfterLhsAlwaysLazy(exclusive, lhs) ==
    IF ~lhs THEN [do |-> "await_rhs", val |-> FALSE]
    ELSE [do |-> "return", val |-> lhs]

OrAfterLhs(exclusive, lhs) ==
    IF exclusive THEN [do |-> "await_rhs", val |-> FALSE]
    ELSE IF ~lhs THEN [do |-> "await_rhs", val |-> FALSE]
    ELSE [do |-> "return", val |-> lhs]

\* Exclusive or computed as inclusive or.
OrAfterRhsInclusive(exclusive, lhs, rhs) ==
    IF exclusive THEN (lhs \/ rhs) ELSE rhs

OrAfterRhs(exclusive, lhs, rhs) ==
    IF exclusive THEN (lhs # rhs) ELSE rhs

OrCallLhs ==
    /\ Running("Or", "start")
    /\ Await("lhs_fn", "await_lhs", FALSE)

OrLhsDone ==
    /\ Running("Or", "await_lhs")
    /\ signal.kind = "return"
    /\ LET d == OrAfterLhs(Node.exclusive, signal.val)
       IN  IF d.do = "return" THEN Finish(Returns(d.val))
           ELSE Await("rhs_fn", "await_rhs", signal.val)

OrRhsDone ==
    /\ Running("Or", "await_rhs")
    /\ signal.kind = "return"
    /\ Finish(Returns(OrAfterRhs(Node.exclusive, Top.lhs, signal.val)))

\* ---- Inverted.__call__
InvertedResult(result) == ~result

InvertedCall ==
    /\ Running("Inverted", "start")
    /\ Await("fn", "await_fn", FALSE)

InvertedDone ==
    /\ Running("Inverted", "await_fn")
    /\ signal.kind = "return"
    /\ Finish(Returns(InvertedResult(signal.val)))

\* ---- an error raised inside an `await`: no __call__ has a try block, so the
\* ---- awaiting frame ends with the error it received.
\* And treats a failing operand as a filter that does not match.
SwallowedByAnd(kind, error) == IF kind = "And" THEN Returns(FALSE) ELSE Raises(error)

Unhandled(kind, error) == Raises(error)

Propagate ==
    /\ Len(stack) > 0
    /\ signal.kind = "raise"
    /\ Finish(Unhandled(Node.k, signal.err))

FilterNext ==
    \/ Evaluate
    \/ StubCall
    \/ AlwaysTrueCall
    \/ AndCallLhs
    \/ AndLhsDone
    \/ AndRhsDone
    \/ OrCallLhs
    \/ OrLhsDone
    \/ OrRhsDone
    \/ InvertedCall
    \/ InvertedDone
    \/ Propagate

(***************************************************************************)
(* handling/_inspect.py                                                    *)
(***************************************************************************)
\* Annotations that are strings: what signature() reports for a function
\* defined under postponed evaluation of annotations.  A string is not the
\* class it names and has no __qualname__.
StringAnnotations == {"'Bot'", "'Message'"}

\* The declared type of a parameter, as signature() reports it: a class, the
\* generic alias Context[Any, Any], inspect's `empty` for no annotation, or a
\* string.
Annotations ==
    {"Bot", "Context", "Context[Any, Any]", "Message", "empty"} \cup StringAnnotations

RECURSIVE SeqsOfLen(_, _)
SeqsOfLen(S, n) ==
    IF n = 0 THEN {<<>>}
    ELSE {Append(q, x) : q \in SeqsOfLen(S, n - 1), x \in S}

SeqsUpTo(S, n) == UNION {SeqsOfLen(S, k) : k \in 0..n}

\* The parameter lists a callback may have, by their annotations.
Signatures == SeqsUpTo(Annotations, MaxParams)

\* The callables a user may register: a plain function, or a functools.partial
\* of one (which has the function's signature, but neither __name__ nor
\* __annotations__).
Callbacks == [kind : {"function", "partial"}, params : Signatures]

Messages == {"msg1", "msg2"}

Bots == {"botA", "botB"}

\* Context[D, T]: ctx.model and ctx.inter.bot.
HandlerContexts == {[model |-> m, inter |-> [bot |-> b]] : m \in Messages, b \in Bots}

\* The values a callback can be passed.
BotArg(ctx) == [is |-> "Bot", model |-> "-", bot |-> ctx.inter.bot]

ModelArg(ctx) == [is |-> "Model", model |-> ctx.model, bot |-> "-"]

ContextArg(ctx) == [is |-> "Context", model |-> ctx.model, bot |-> ctx.inter.bot]

\* signature(c).parameters: the annotations of the callable's parameters.
signature(c) == c.params

\* getattr(t, "__origin__", t)
extract_origin_type(t) == IF t = "Context[Any, Any]" THEN "Context" ELSE t

\* original.__name__ exists.
has_name(c) == c.kind = "function"

\* c.__annotations__ exists.
has_annotations(c) == c.kind = "function"

\* t.__qualname__ exists.
has_qualname(t) == t \notin StringAnnotations

NoHandler == "-"

Handler(fn) == [raised |-> "-", fn |-> fn]

Raise(error) == [raised |-> error, fn |-> NoHandler]

\* What formatting the message of the two-parameter TypeError ends with.
_fmt_tps_tuple(tps) ==
    IF has_qualname(tps[1]) /\ has_qualname(tps[2]) THEN "-" ELSE "AttributeError"

\* case [(_, spec)]
OneParameter(origin) ==
    IF origin = "Bot" THEN Handler("lambda ctx: original(ctx.inter.bot)")
    ELSE IF origin = "Context" THEN Handler("original")
    ELSE Handler("lambda ctx: original(ctx.model)")

\* The two lambdas of the two-parameter case exchanged.
TwoParametersExchanged(origins) ==
    IF origins[2] = "Bot" THEN Handler("lambda ctx: original(ctx.inter.bot, ctx.model)")
    ELSE IF origins[1] = "Bot" THEN Handler("lambda ctx: original(ctx.model, ctx.inter.bot)")
    ELSE IF _fmt_tps_tuple(origins) = "-" THEN Raise("TypeError")
    ELSE Raise(_fmt_tps_tuple(origins))

\* The first parameter tested before the second.
TwoParametersFirstFirst(origins) ==
    IF origins[1] = "Bot" THEN Handler("lambda ctx: original(ctx.inter.bot, ctx.model)")
    ELSE IF origins[2] = "Bot" THEN Handler("lambda ctx: original(ctx.model, ctx.inter.bot)")
    ELSE IF _fmt_tps_tuple(origins) = "-" THEN Raise("TypeError")
    ELSE Raise(_fmt_tps_tuple(origins))

\* Two parameters of which none is a Bot taken as (model, bot).
TwoParametersLenient(origins) ==
    IF origins[2] = "Bot" THEN Handler("lambda ctx: original(ctx.model, ctx.inter.bot)")
    ELSE IF origins[1] = "Bot" THEN Handler("lambda ctx: original(ctx.inter.bot, ctx.model)")
    ELSE Handler("lambda ctx: original(ctx.model, ctx.inter.bot)")

\* case [(_, spec1), (_, spec2)]
TwoParameters(origins) ==
    IF origins[2] = "Bot" THEN Handler("lambda ctx: original(ctx.model, ctx.inter.bot)")
    ELSE IF origins[1] = "Bot" THEN Handler("lambda ctx: original(ctx.inter.bot, ctx.model)")
    ELSE IF _fmt_tps_tuple(origins) = "-" THEN Raise("TypeError")
    ELSE Raise(_fmt_tps_tuple(origins))

\* case _: the message reads original.__name__ before the TypeError is raised.
OtherArity(c) == IF has_name(c) THEN Raise("TypeError") ELSE Raise("AttributeError")

into_handler_fn(c) ==
    LET params == signature(c)
    IN  IF Len(params) = 1 THEN OneParameter(extract_origin_type(params[1]))
        ELSE IF Len(params) = 2
            THEN TwoParameters(<<extract_origin_type(params[1]),
                                 extract_origin_type(params[2])>>)
        ELSE OtherArity(c)

\* annotate_with_handler_fn(c): how it ends and the callable it leaves.
annotate_with_handler_fn(c) ==
    IF Len(signature(c)) = 0 THEN [raised |-> "StopIteration", c |-> c]
    ELSE IF ~has_annotations(c) THEN [raised |-> "AttributeError", c |-> c]
    ELSE [raised |-> "-",
          c |-> [c EXCEPT !.params = [signature(c) EXCEPT ![1] = "Context[Any, Any]"]]]

\* A handler that resolves the callback's shape on every invocation.
HandlerCallResolving(fn, ctx) ==
    [inspections |-> <<"handler">>,
     calls |->
        IF fn = "lambda ctx: original(ctx.inter.bot)" THEN << <<BotArg(ctx)>> >>
        ELSE IF fn = "original" THEN << <<ContextArg(ctx)>> >>
        ELSE IF fn = "lambda ctx: original(ctx.model)" THEN << <<ModelArg(ctx)>> >>
        ELSE IF fn = "lambda ctx: original(ctx.model, ctx.inter.bot)"
            THEN << <<ModelArg(ctx), BotArg(ctx)>> >>
        ELSE << <<BotArg(ctx), ModelArg(ctx)>> >>]

\* One invocation of the returned handler: the calls it makes to the original
\* callback and the signature inspections it performs.
HandlerCall(fn, ctx) ==
    [inspections |-> <<>>,
     calls |->
        IF fn = "lambda ctx: original(ctx.inter.bot)" THEN << <<BotArg(ctx)>> >>
        ELSE IF fn = "original" THEN << <<ContextArg(ctx)>> >>
        ELSE IF fn = "lambda ctx: original(ctx.model)" THEN << <<ModelArg(ctx)>> >>
        ELSE IF fn = "lambda ctx: original(ctx.model, ctx.inter.bot)"
            THEN << <<ModelArg(ctx), BotArg(ctx)>> >>
        ELSE << <<BotArg(ctx), ModelArg(ctx)>> >>]

InspectionsBy(who) == Len(SelectSeq(inspections, LAMBDA w : w = who))

\* Registration: handler = into_handler_fn(original).
Register ==
    /\ registration = "none"
    /\ LET r == into_handler_fn(original)
       IN  /\ items' = signature(original)
           /\ inspections' = Append(inspections, "into_handler_fn")
           /\ registration' = IF r.raised = "-" THEN "ok" ELSE r.raised
           /\ handler' = r.fn
    /\ UNCHANGED <<original, annotated, invocations, received, filterVars, pollingVars>>

\* The user calls annotate_with_handler_fn(original), before or after the
\* registration.
Annotate ==
    /\ InspectionsBy("annotate_with_handler_fn") < MaxAnnotations
    /\ LET r == annotate_with_handler_fn(original)
       IN  /\ inspections' = Append(inspections, "annotate_with_handler_fn")
           /\ annotated' = IF r.raised = "-" THEN "ok" ELSE r.raised
           /\ original' = r.c
    /\ UNCHANGED <<items, registration, handler, invocations, received,
                   filterVars, pollingVars>>

\* Dispatch: await handler(ctx).
Invoke ==
    /\ handler # NoHandler
    /\ Len(invocations) < MaxInvocations
    /\ \E ctx \in HandlerContexts :
          LET c == HandlerCall(handler, ctx)
          IN  /\ invocations' = Append(invocations, ctx)
              /\ received' = received \o c.calls
              /\ inspections' = inspections \o c.inspections
    /\ UNCHANGED <<original, items, registration, handler, annotated,
                   filterVars, pollingVars>>

AdapterNext ==
    \/ Register
    \/ Annotate
    \/ Invoke

(***************************************************************************)
(* dispatcher/__init__.py                                                  *)
(***************************************************************************)
Update(id) == [id |-> id]

\* What get_updates may return: any list of updates within the bounds.
Batches == SeqsUpTo({Update(id) : id \in 0..MaxUpdateId}, MaxBatch)

None == <<>>

Some(n) == <<n>>

\* The local `updates` before and after its first assignment.
Unbound == <<>>

Bound(batch) == <<batch>>

\* What a pending get_updates call may end with instead of a batch: an error
\* of the transport, or the cancellation of the task.
GetUpdatesErrors == {"ConnectionError", "CancelledError"}

WhileCondition == TRUE

\* The offset left at the last update received, which is then fetched again.
NextOffsetNotAdvanced(batch) == Some(batch[Len(batch)].id)

NextOffset(batch) == Some(batch[Len(batch)].id + 1)

\* offset = None
RunPolling ==
    /\ pc = "run_polling"
    /\ offset' = None
    /\ pc' = "while"
    /\ UNCHANGED <<updates, index, failure, requests, batches, printed,
                   filterVars, adapterVars>>

\* while True:
WhileTest ==
    /\ pc = "while"
    /\ pc' = IF WhileCondition THEN "get_updates" ELSE "return"
    /\ UNCHANGED <<offset, updates, index, failure, requests, batches, printed,
                   filterVars, adapterVars>>

\* self._bot.updates.get_updates(offset, ...) is called and run_polling
\* suspends in the await.
CallGetUpdates ==
    /\ pc = "get_updates"
    /\ Len(requests) < MaxPolls
    /\ requests' = Append(requests, offset)
    /\ pc' = "await"
    /\ UNCHANGED <<offset, updates, index, failure, batches, printed,
                   filterVars, adapterVars>>

\* updates = await ...: the call answers with a batch.
GetUpdatesReturns ==
    /\ pc = "await"
    /\ \E batch \in Batches :
          /\ updates' = Bound(batch)
          /\ batches' = Append(batches, batch)
    /\ pc' = "if"
    /\ UNCHANGED <<offset, index, failure, requests, printed, filterVars, adapterVars>>

\* The await ends with an exception instead: nothing in run_polling catches
\* it, so run_polling ends with it.
GetUpdatesRaises ==
    /\ pc = "await"
    /\ \E e \in GetUpdatesErrors : failure' = e
    /\ pc' = "raised"
    /\ UNCHANGED <<offset, updates, index, requests, batches, printed,
                   filterVars, adapterVars>>

\* if not updates: continue; else offset = updates[-1].id + 1 and the for loop starts
HandleBatch ==
    /\ pc = "if"
    /\ IF updates[1] = <<>>
       THEN /\ pc' = "while"
            /\ UNCHANGED <<offset, index>>
       ELSE /\ offset' = NextOffset(updates[1])
            /\ index' = 1
            /\ pc' = "for"
    /\ UNCHANGED <<updates, failure, requests, batches, printed, filterVars, adapterVars>>

\* for update in updates: print(update)
PrintUpdate ==
    /\ pc = "for"
    /\ IF index <= Len(updates[1])
       THEN /\ printed' = Append(printed, updates[1][index])
            /\ index' = index + 1
            /\ pc' = "for"
       ELSE /\ pc' = "while"
            /\ UNCHANGED <<printed, index>>
    /\ UNCHANGED <<offset, updates, failure, requests, batches, filterVars, adapterVars>>

PollingNext ==
    \/ RunPolling
    \/ WhileTest
    \/ CallGetUpdates
    \/ GetUpdatesReturns
    \/ GetUpdatesRaises
    \/ HandleBatch
    \/ PrintUpdate

(***************************************************************************)
(* Specifications: one per part; the other parts stay as constructed.      *)
(***************************************************************************)
\* A filter has been built and not yet evaluated.
FilterInit ==
    /\ filter \in Filters
    /\ stack = <<>>
    /\ signal = Idle
    /\ trace = <<>>
    /\ returned = [p \in Paths(filter) |-> Idle]
    \* the other parts, as constructed
    /\ original = [kind |-> "function", params |-> <<>>]
    /\ items = <<>>
    /\ registration = "none"
    /\ handler = NoHandler
    /\ annotated = "none"
    /\ inspections = <<>>
    /\ invocations = <<>>
    /\ received = <<>>
    /\ pc = "run_polling"
    /\ offset = None
    /\ updates = Unbound
    /\ index = 1
    /\ failure = "-"
    /\ requests = <<>>
    /\ batches = <<>>
    /\ printed = <<>>

\* The user has defined a callback; it has not been registered yet.
AdapterInit ==
    /\ original \in Callbacks
    /\ items = <<>>
    /\ registration = "none"
    /\ handler = NoHandler
    /\ annotated = "none"
    /\ inspections = <<>>
    /\ invocations = <<>>
    /\ received = <<>>
    \* the other parts, as constructed
    /\ filter = Stub
    /\ stack = <<>>
    /\ signal = Idle
    /\ trace = <<>>
    /\ returned = [p \in Paths(Stub) |-> Idle]
    /\ pc = "run_polling"
    /\ offset = None
    /\ updates = Unbound
    /\ index = 1
    /\ failure = "-"
    /\ requests = <<>>
    /\ batches = <<>>
    /\ printed = <<>>

\* The Dispatcher has been constructed and run_polling is about to start.
PollingInit ==
    /\ pc = "run_polling"
    /\ offset = None
    /\ updates = Unbound
    /\ index = 1
    /\ failure = "-"
    /\ requests = <<>>
    /\ batches = <<>>
    /\ printed = <<>>
    \* the other parts, as constructed
    /\ filter = Stub
    /\ stack = <<>>
    /\ signal = Idle
    /\ trace = <<>>
    /\ returned = [p \in Paths(Stub) |-> Idle]
    /\ original = [kind |-> "function", params |-> <<>>]
    /\ items = <<>>
    /\ registration = "none"
    /\ handler = NoHandler
    /\ annotated = "none"
    /\ inspections = <<>>
    /\ invocations = <<>>
    /\ received = <<>>

FilterSpec == FilterInit /\ [][FilterNext]_vars

AdapterSpec == AdapterInit /\ [][AdapterNext]_vars

PollingSpec == PollingInit /\ [][PollingNext]_vars

(***************************************************************************)
(* Properties of the filter combinators (checked under FilterSpec).        *)
(***************************************************************************)
\* The contexts node `p` has been invoked with, in order.
InvokedWith(p) ==
    LET hits == SelectSeq(trace, LAMBDA e : e.path = p)
    IN  [i \in 1..Len(hits) |-> hits[i].ctx]

IsPrefix(p, q) == Len(p) <= Len(q) /\ SubSeq(q, 1, Len(p)) = p

OnStack(p) == \E i \in 1..Len(stack) : stack[i].path = p

\* Nothing at or below node `p` has been invoked.
Untouched(p) == \A q \in Paths(filter) : IsPrefix(p, q) => InvokedWith(q) = <<>>

Evaluated == trace # <<>> /\ stack = <<>>

Lhs(p) == p \o <<"lhs_fn">>

Rhs(p) == p \o <<"rhs_fn">>

AndNodes == {p \in Paths(filter) : Sub(filter, p).k = "And"}

OrNodes == {p \in Paths(filter) : Sub(filter, p).k = "Or" /\ ~Sub(filter, p).exclusive}

XorNodes == {p \in Paths(filter) : Sub(filter, p).k = "Or" /\ Sub(filter, p).exclusive}

StubNodes == {p \in Paths(filter) : Sub(filter, p).k = "Stub"}

\* C1. Short-circuit AND: an And node evaluates its left operand first, on the
\* context it was given; the right operand starts only after the left one has
\* returned; and when the left operand returned false, nothing of the right
\* operand is ever invoked and the And node returns false.
C1_ShortCircuitAnd ==
    \A p \in AndNodes :
        /\ returned[p] # Idle => InvokedWith(Lhs(p)) = InvokedWith(p)
        /\ Len(InvokedWith(Lhs(p))) <= 1
        /\ InvokedWith(Lhs(p)) # <<>> => InvokedWith(Lhs(p)) = InvokedWith(p)
        /\ InvokedWith(Rhs(p)) # <<>> => returned[Lhs(p)].kind = "return"
        /\ returned[Lhs(p)] = Returns(FALSE) =>
              /\ Untouched(Rhs(p))
              /\ IF OnStack(p) THEN returned[p] = Idle ELSE returned[p] = Returns(FALSE)

\* An And whose left operand returned false has finished, and the whole
\* evaluation with it.
C1_Witness ==
    /\ Evaluated
    /\ \E p \in AndNodes :
          /\ returned[Lhs(p)] = Returns(FALSE)
          /\ returned[p] = Returns(FALSE)
          /\ InvokedWith(Rhs(p)) = <<>>

\* C2. Short-circuit OR: an inclusive Or node evaluates its left operand
\* first, on the context it was given; the right operand starts only after the
\* left one has returned; and when the left operand returned true, nothing of
\* the right operand is ever invoked and the Or node returns true.
C2_ShortCircuitOr ==
    \A p \in OrNodes :
        /\ returned[p] # Idle => InvokedWith(Lhs(p)) = InvokedWith(p)
        /\ Len(InvokedWith(Lhs(p))) <= 1
        /\ InvokedWith(Lhs(p)) # <<>> => InvokedWith(Lhs(p)) = InvokedWith(p)
        /\ InvokedWith(Rhs(p)) # <<>> => returned[Lhs(p)].kind = "return"
        /\ returned[Lhs(p)] = Returns(TRUE) =>
              /\ Untouched(Rhs(p))
              /\ IF OnStack(p) THEN returned[p] = Idle ELSE returned[p] = Returns(TRUE)

C2_Witness ==
    /\ Evaluated
    /\ \E p \in OrNodes :
          /\ returned[Lhs(p)] = Returns(TRUE)
          /\ returned[p] = Returns(TRUE)
          /\ InvokedWith(Rhs(p)) = <<>>

\* C3 as claimed. No short-circuit XOR: every evaluation of an exclusive Or
\* node that has ended invoked both its operands on the node's context,
\* whatever the outcome of either operand.
C3_AsClaimed ==
    \A p \in XorNodes :
        returned[p] # Idle =>
            /\ InvokedWith(Lhs(p)) = InvokedWith(p)
            /\ InvokedWith(Rhs(p)) = InvokedWith(p)

\* C3 as amended. Every evaluation of an exclusive Or node invokes its left
\* operand on the node's context; it invokes the right operand too, on the
\* same context, whenever the left operand returned, whichever boolean it
\* returned; the right operand is skipped only when the left operand raised.
C3_NoShortCircuitXor ==
    \A p \in XorNodes :
        /\ returned[p] # Idle =>
              /\ InvokedWith(Lhs(p)) = InvokedWith(p)
              /\ returned[Lhs(p)].kind = "return" => InvokedWith(Rhs(p)) = InvokedWith(p)
              /\ returned[Lhs(p)].kind = "raise" => Untouched(Rhs(p))
        /\ InvokedWith(Rhs(p)) # <<>> => returned[Lhs(p)].kind = "return"

\* An exclusive Or whose left operand returned true went on to its right
\* operand and returned.
C3_Witness ==
    /\ Evaluated
    /\ \E p \in XorNodes :
          /\ returned[Lhs(p)] = Returns(TRUE)
          /\ returned[Rhs(p)].kind = "return"
          /\ returned[p].kind = "return"
          /\ Len(InvokedWith(Rhs(p))) = 1

\* The textbook value of the boolean expression at node `p`, the leaves valued
\* by `asg`.
RECURSIVE Truth(_, _)
Truth(p, asg) ==
    LET n == Sub(filter, p)
    IN  IF n.k = "Stub" THEN asg[p]
        ELSE IF n.k = "always_true" THEN TRUE
        ELSE IF n.k = "Inverted" THEN ~Truth(p \o <<"fn">>, asg)
        ELSE IF n.k = "And" THEN Truth(Lhs(p), asg) /\ Truth(Rhs(p), asg)
        ELSE IF n.exclusive THEN Truth(Lhs(p), asg) # Truth(Rhs(p), asg)
        ELSE Truth(Lhs(p), asg) \/ Truth(Rhs(p), asg)

\* The assignments of booleans to the leaves that agree with what the leaves
\* invoked so far returned.
Assignments ==
    {asg \in [StubNodes -> BOOLEAN] :
        \A p \in StubNodes : returned[p].kind = "return" => asg[p] = returned[p].val}

\* C4. Boolean correctness: when the leaves return booleans, every node that
\* has returned (the whole tree included) returned the textbook value of its
\* expression (AND, inclusive OR, exclusive OR, NOT), under every assignment
\* that gives the invoked leaves the values they returned; and the evaluation
\* ends by returning that value.
C4_BooleanCorrectness ==
    (\A p \in StubNodes : returned[p].kind # "raise") =>
        /\ \A p \in Paths(filter) : returned[p].kind # "raise"
        /\ \A p \in Paths(filter) :
              returned[p].kind = "return" =>
                  \A asg \in Assignments : returned[p].val = Truth(p, asg)
        /\ Evaluated => signal.kind = "return" /\ signal = returned[<<>>]

\* ~(f & g) with f true and g false has evaluated to true.
C4_Witness ==
    /\ Evaluated
    /\ filter = __invert__(__and__(Stub, Stub))
    /\ returned[<<"fn", "lhs_fn">>] = Returns(TRUE)
    /\ returned[<<"fn", "rhs_fn">>] = Returns(FALSE)
    /\ signal = Returns(TRUE)

\* C7. Predicate error propagation: when an invoked leaf raises, it is the
\* last thing invoked in the evaluation (no later operand runs, the leaf is
\* not retried), every enclosing node ends with that same error, and so does
\* the evaluation of the whole tree.
C7_ErrorPropagation ==
    \A i \in 1..Len(trace) :
        LET p == trace[i].path
        IN  (Sub(filter, p).k = "Stub" /\ returned[p].kind = "raise") =>
                /\ i = Len(trace)
                /\ Len(InvokedWith(p)) = 1
                /\ signal = returned[p]
                /\ \A q \in Paths(filter) :
                      IsPrefix(q, p) =>
                          IF OnStack(q) THEN returned[q] = Idle
                          ELSE returned[q] = returned[p]

\* A leaf two levels down raised after another leaf had returned, and the
\* evaluation ended with its error.
C7_Witness ==
    /\ Evaluated
    /\ signal = Raises("KeyError")
    /\ \E p \in StubNodes :
          /\ Len(p) >= 2
          /\ returned[p] = Raises("KeyError")
          /\ \E q \in StubNodes : returned[q].kind = "return"

(***************************************************************************)
(* Properties of the handler adapter (checked under AdapterSpec).  They    *)
(* speak of `items`, the parameters as into_handler_fn saw them: "typed    *)
(* Bot" means that the annotation signature() reports is the class Bot,    *)
(* as the code compares it.                                                *)
(***************************************************************************)
Origins(ps) == [i \in 1..Len(ps) |-> extract_origin_type(ps[i])]

Registered == registration # "none"

\* The argument lists of §4.2: what a callback of each kind is passed.
OnlyModel(ctx) == <<ModelArg(ctx)>>

OnlyInteraction(ctx) == <<BotArg(ctx)>>

Identity(ctx) == <<ContextArg(ctx)>>

InteractionModel(ctx) == <<BotArg(ctx), ModelArg(ctx)>>

ModelInteraction(ctx) == <<ModelArg(ctx), BotArg(ctx)>>

\* What C5 says the callback receives; <<>> where C5 says nothing.
C5_Expected(ps, ctx) ==
    LET o == Origins(ps)
    IN  IF Len(ps) = 1 THEN
            IF o[1] = "Bot" THEN OnlyInteraction(ctx)
            ELSE IF o[1] = "Context" THEN Identity(ctx)
            ELSE OnlyModel(ctx)
        ELSE IF Len(ps) = 2 /\ o[1] = "Bot" /\ o[2] # "Bot" THEN InteractionModel(ctx)
        ELSE IF Len(ps) = 2 /\ o[1] # "Bot" /\ o[2] = "Bot" THEN ModelInteraction(ctx)
        ELSE <<>>

\* C5. Adapter shape resolution: every invocation of the handler returned by
\* into_handler_fn calls the original callback exactly once: with the model
\* only for one parameter typed neither Bot nor Context, with the bot only for
\* one parameter typed Bot, with the context itself for one parameter typed
\* Context, with (bot, model) for parameters typed (Bot, model) and with
\* (model, bot) for parameters typed (model, Bot).
C5_ShapeResolution ==
    handler # NoHandler =>
        /\ Len(received) = Len(invocations)
        /\ \A i \in 1..Len(invocations) :
              C5_Expected(items, invocations[i]) # <<>> =>
                  received[i] = C5_Expected(items, invocations[i])

\* A callback typed (model, Bot) has been invoked twice, with different
\* contexts, and received (model, bot).
C5_Witness ==
    /\ Len(invocations) = MaxInvocations
    /\ Len(received) = MaxInvocations
    /\ items = <<"Message", "Bot">>
    /\ received[1] = ModelInteraction(invocations[1])
    /\ invocations[1] # invocations[MaxInvocations]

Rejected(ps) ==
    \/ Len(ps) = 0
    \/ Len(ps) >= 3
    \/ Len(ps) = 2 /\ Origins(ps)[1] # "Bot" /\ Origins(ps)[2] # "Bot"

\* C6. Adapter rejection: adapting a callback with no parameter, with three
\* or more, or with two parameters neither of which is typed Bot raises an
\* error out of into_handler_fn and yields no handler, so the callback is
\* never invoked.  (The error is the TypeError of the raise statement, or the
\* AttributeError of formatting its message.)
C6_Rejection ==
    (Registered /\ Rejected(items)) =>
        /\ registration \in {"TypeError", "AttributeError"}
        /\ handler = NoHandler
        /\ invocations = <<>>
        /\ received = <<>>

\* A partial of a three-parameter function has been refused: the error is
\* the AttributeError of reading its __name__ for the message.
C6_Witness ==
    /\ registration = "AttributeError"
    /\ handler = NoHandler
    /\ Len(items) = 3
    /\ original.kind = "partial"

Mappings == {"OnlyModel", "OnlyInteraction", "Identity", "InteractionModel", "ModelInteraction"}

Mapped(m, ctx) ==
    IF m = "OnlyModel" THEN OnlyModel(ctx)
    ELSE IF m = "OnlyInteraction" THEN OnlyInteraction(ctx)
    ELSE IF m = "Identity" THEN Identity(ctx)
    ELSE IF m = "InteractionModel" THEN InteractionModel(ctx)
    ELSE ModelInteraction(ctx)

\* C8. Resolve once: the registration inspects the callback's signature
\* exactly once, in its into_handler_fn call; no invocation of the handler
\* inspects it; all invocations use one and the same argument mapping,
\* whatever annotate_with_handler_fn has done to the annotations since; and
\* each invocation makes exactly one call to the original callback.
C8_ResolveOnce ==
    /\ InspectionsBy("handler") = 0
    /\ InspectionsBy("into_handler_fn") = IF Registered THEN 1 ELSE 0
    /\ Len(received) = Len(invocations)
    /\ \E m \in Mappings :
          \A i \in 1..Len(invocations) : received[i] = Mapped(m, invocations[i])

\* The handler has been invoked with different contexts, the second time
\* after annotate_with_handler_fn had retyped the parameter.
C8_Witness ==
    /\ registration = "ok"
    /\ Len(invocations) = MaxInvocations
    /\ invocations[1] # invocations[MaxInvocations]
    /\ items = <<"Bot">>
    /\ signature(original) = <<"Context[Any, Any]">>
    /\ inspections[1] = "into_handler_fn"

\* C9 as claimed. Two-parameter resolution rule: when the second parameter is
\* typed Bot the callback receives (bot, model); otherwise, when the first is
\* typed Bot, it receives (model, bot).
C9_AsClaimed ==
    (handler # NoHandler /\ Len(items) = 2) =>
        \A i \in 1..Len(received) :
            received[i] = IF Origins(items)[2] = "Bot"
                          THEN InteractionModel(invocations[i])
                          ELSE ModelInteraction(invocations[i])

\* C9 as amended. The second parameter's type is tested first: when it is Bot
\* the callback receives (model, bot) (shape 4), also when both parameters are
\* typed Bot; otherwise, when the first is typed Bot, it receives (bot, model)
\* (shape 3).
C9_TwoParameterRule ==
    (Registered /\ Len(items) = 2) =>
        /\ (Origins(items)[2] = "Bot" \/ Origins(items)[1] = "Bot") => handler # NoHandler
        /\ Len(received) = Len(invocations)
        /\ \A i \in 1..Len(received) :
              received[i] = IF Origins(items)[2] = "Bot"
                            THEN ModelInteraction(invocations[i])
                            ELSE InteractionModel(invocations[i])

\* A callback with both parameters typed Bot has been invoked.
C9_Witness ==
    /\ items = <<"Bot", "Bot">>
    /\ Len(received) >= 1
    /\ received[1] = ModelInteraction(invocations[1])

(***************************************************************************)
(* Properties of the polling loop (checked under PollingSpec).             *)
(***************************************************************************)
\* The offset after the first k batches: one past the id of the last update
\* of the latest batch that was not empty, None when there is none.
RECURSIVE OffsetAfter(_)
OffsetAfter(k) ==
    IF k = 0 THEN None
    ELSE IF batches[k] = <<>> THEN OffsetAfter(k - 1)
    ELSE Some(batches[k][Len(batches[k])].id + 1)

\* The updates of the first k batches, in order.
RECURSIVE UpdatesOf(_)
UpdatesOf(k) == IF k = 0 THEN <<>> ELSE UpdatesOf(k - 1) \o batches[k]

\* C10. Polling offset: each get_updates call is passed None until a
\* non-empty batch has been received and afterwards the id of the last update
\* of the latest non-empty batch plus one; an empty batch changes neither the
\* offset nor what has been processed; the updates of a batch are processed in
\* batch order, all of them before the next get_updates call; and the loop
\* never leaves on its own: run_polling ends only when a pending get_updates
\* call raises.
C10_PollingOffset ==
    LET n == Len(batches)
    IN  /\ pc \in {"run_polling", "while", "get_updates", "await", "if", "for", "raised"}
        /\ \A i \in 1..Len(requests) : requests[i] = OffsetAfter(i - 1)
        /\ pc \in {"run_polling", "while", "get_updates"} =>
              /\ Len(requests) = n
              /\ offset = OffsetAfter(n)
              /\ printed = UpdatesOf(n)
        /\ pc = "await" =>
              /\ Len(requests) = n + 1
              /\ offset = OffsetAfter(n)
              /\ printed = UpdatesOf(n)
        /\ pc = "if" =>
              /\ Len(requests) = n
              /\ updates = Bound(batches[n])
              /\ offset = OffsetAfter(n - 1)
              /\ printed = UpdatesOf(n - 1)
        /\ pc = "for" =>
              /\ Len(requests) = n
              /\ updates = Bound(batches[n])
              /\ index \in 1..(Len(batches[n]) + 1)
              /\ offset = OffsetAfter(n)
              /\ printed = UpdatesOf(n - 1) \o SubSeq(batches[n], 1, index - 1)
        \* run_polling ends only with an exception of a pending get_updates
        /\ pc = "raised" <=> failure # "-"
        /\ pc = "raised" =>
              /\ failure \in GetUpdatesErrors
              /\ Len(requests) = n + 1
              /\ printed = UpdatesOf(n)
        /\ (pc # "raised" /\ (pc # "get_updates" \/ n < MaxPolls)) => ENABLED PollingNext

\* After a non-empty and then an empty batch, the loop is back at its head
\* with the offset of the non-empty batch.
C10_Witness ==
    /\ pc = "while"
    /\ Len(batches) = 2
    /\ Len(batches[1]) = 2
    /\ batches[2] = <<>>
    /\ requests = <<None, Some(batches[1][2].id + 1)>>
    /\ printed = batches[1]
====
